---- MODULE Spec2Model ----
(***************************************************************************)
(* A model of the r2d2 connection pool (src/src/lib.rs): Pool::new,        *)
(* Pool::get, Pool::put_back, PooledConnection::replace and its Drop, and  *)
(* the helper tasks (helper_task, add_connection).                         *)
(*                                                                         *)
(* Connections and errors are identified by the index of the               *)
(* manager.connect call that produced them.  The state mutex is `lock`,    *)
(* its condition variable's blocked tasks are `waiters`, the mutex around  *)
(* the command receiver is `rlock`.                                        *)
(***************************************************************************)
EXTENDS Naturals, Integers, Sequences, FiniteSets

\* ---- bounds of the model ------------------------------------------------
MaxSize == 2
MaxHelpers == 2
NumClients == 2
MaxConnects == 2

Max(a, b) == IF a > b THEN a ELSE b
\* client tasks that may exist; `callers` are those of the run at hand
Clients == 1..Max(NumClients, MaxSize + 1)
Helpers == 1..MaxHelpers
NoTask == 0
None == 0
\* no get has been observed yet
NoRoundTrip == [idle0 |-> 0, clean |-> FALSE]
\* a helper's `res` before connect has returned
NoResult == [ok |-> FALSE, id |-> None]

\* uint arithmetic wraps; the width is scaled down to fit TLC's integers.
UintModulus == 2^16
USub(a, b) == (a - b + UintModulus) % UintModulus
UAdd(a, b) == (a + b) % UintModulus
Min(a, b) == IF a < b THEN a ELSE b

VARIABLES
    config,        \* Config value handed to Pool::new
    manager,       \* which PoolManager implementation is in use
    callers,       \* the client tasks that use the Pool
    phase,         \* "init" | "connecting" | "invalid" | "connerr" | "running"
    new_err,       \* the error carried by ConnectionError(err), or None
    conns,         \* PoolInternals.conns (idle queue)
    failed_conns,  \* PoolInternals.failed_conns
    num_conns,     \* PoolInternals.num_conns
    lock,          \* owner of InnerPool.internals' mutex, or NoTask
    waiters,       \* clients blocked in internals.cond.wait()
    helper_chan,   \* commands sent and not yet received
    closed,        \* the Pool (and its Sender) has been dropped
    rlock,         \* helper holding the receiver mutex, or NoTask
    pc,            \* per client: where it is in get / replace / drop
    lease,         \* per client: PooledConnection.conn (None or a connection)
    hpc,           \* per helper: where it is in helper_task
    hres,          \* per helper: result of manager.connect ([ok, id])
    nconnects,     \* number of manager.connect calls made so far
    live,          \* connections that exist (created and not yet dropped)
    nfailed,       \* connect failures seen by helper tasks
    nerrs,         \* errors returned by get
    rt             \* round-trip record: idle size at the start of a get, and
                   \* whether anything but that get's first pop touched conns since

vars == <<config, manager, callers, phase, new_err, conns, failed_conns, num_conns, lock,
          waiters, helper_chan, closed, rlock, pc, lease, hpc, hres,
          nconnects, live, nfailed, nerrs, rt>>

poolVars == <<conns, failed_conns, num_conns>>
newVars == <<config, manager, callers, phase, new_err>>
clientVars == <<pc, lease>>
helperVars == <<hpc, hres, rlock>>

\* ---- configuration --------------------------------------------------------
Configs ==
    [initial_size: 0..MaxSize, max_size: 0..MaxSize,
     acquire_increment: 0..MaxSize, helper_tasks: 0..MaxHelpers,
     test_on_check_out: BOOLEAN]

\* Config::validate (config.rs is not part of the sources; spec section 4.1)
validate(c) ==
    /\ c.max_size > 0
    /\ c.initial_size <= c.max_size
    /\ c.acquire_increment > 0
    /\ c.helper_tasks > 0

\* ---- the manager ----------------------------------------------------------
Managers == {"Any", "OkManager", "FailOnce", "NthConnectFailManager", "Poisoned"}

\* NthConnectFailManager { n: Mutex::new(1) } of test_acquire_fail: the first n
\* calls of connect succeed, every later one fails.
NthConnectFail_n == 1

\* Possible outcomes (TRUE: Ok, FALSE: Err) of the k-th call of connect.
ConnectResults(m, k) ==
    CASE m \in {"OkManager", "Poisoned"} -> {TRUE}
      [] m = "FailOnce" -> {k > 1}
      [] m = "NthConnectFailManager" -> {k <= NthConnectFail_n}
      [] OTHER -> BOOLEAN

\* Possible outcomes of is_valid(&conn).  Under the Poisoned manager the
\* connections Pool::new made have gone bad and every later one is good.
IsValidResults(m, conn) ==
    CASE m = "Any" -> BOOLEAN
      [] m = "Poisoned" -> {conn > config.initial_size}
      [] OTHER -> {TRUE}

\* faulty variant: push inserts at the front
push_at_front(q, x) == <<x>> \o q

\* RingBuf::push appends at the back, pop_front removes the front.
push(q, x) == Append(q, x)
pop_front_rest(q) == Tail(q)
front(q) == Head(q)

\* faulty variant: signal wakes nobody
signal_none(newpc) ==
    /\ waiters' = waiters
    /\ pc' = newpc

\* faulty variant: signal wakes every blocked task (a broadcast)
signal_all(newpc) ==
    /\ waiters' = {}
    /\ pc' = [t \in Clients |-> IF t \in waiters THEN "woken" ELSE newpc[t]]

\* cond.signal(): wakes one blocked task if there is one; the signal is lost
\* otherwise.  newpc is pc as the signalling task leaves it.
signal(newpc) ==
    IF waiters = {}
    THEN /\ waiters' = waiters
         /\ pc' = newpc
    ELSE \E w \in waiters :
            /\ waiters' = waiters \ {w}
            /\ pc' = [newpc EXCEPT ![w] = "woken"]

\* ---- initial state ----------------------------------------------------------
InitCommon ==
    /\ phase = "init"
    /\ new_err = None
    /\ conns = <<>>
    /\ failed_conns = <<>>
    /\ num_conns = 0
    /\ lock = NoTask
    /\ waiters = {}
    /\ helper_chan = <<>>
    /\ closed = FALSE
    /\ rlock = NoTask
    /\ pc = [t \in Clients |-> "idle"]
    /\ lease = [t \in Clients |-> None]
    /\ hpc = [h \in Helpers |-> "unspawned"]
    /\ hres = [h \in Helpers |-> NoResult]
    /\ nconnects = 0
    /\ live = {}
    /\ nfailed = 0
    /\ nerrs = 0
    /\ rt = NoRoundTrip

Init ==
    /\ config \in Configs
    /\ manager = "Any"
    /\ callers = 1..NumClients
    /\ InitCommon

\* ---- Pool::new ----------------------------------------------------------------
NewInvalid ==
    /\ phase = "init"
    /\ ~validate(config)
    /\ phase' = "invalid"
    /\ UNCHANGED <<rt, config, manager, callers, new_err, poolVars, lock, waiters, helper_chan,
                   closed, clientVars, helperVars, nconnects, live, nfailed, nerrs>>

\* faulty variant: num_conns starts at zero instead of initial_size
NewBegin_zero ==
    /\ phase = "init"
    /\ validate(config)
    /\ phase' = "connecting"
    /\ conns' = <<>>
    /\ failed_conns' = <<>>
    /\ num_conns' = 0
    /\ UNCHANGED <<rt, config, manager, callers, new_err, lock, waiters, helper_chan,
                   closed, clientVars, helperVars, nconnects, live, nfailed, nerrs>>

NewBegin ==
    /\ phase = "init"
    /\ validate(config)
    /\ phase' = "connecting"
    /\ conns' = <<>>
    /\ failed_conns' = <<>>
    /\ num_conns' = config.initial_size
    /\ UNCHANGED <<rt, config, manager, callers, new_err, lock, waiters, helper_chan,
                   closed, clientVars, helperVars, nconnects, live, nfailed, nerrs>>

\* faulty variant: a failed connect is skipped and the loop goes on
NewConnect_skip ==
    /\ phase = "connecting"
    /\ Len(conns) < config.initial_size
    /\ nconnects < MaxConnects
    /\ nconnects' = nconnects + 1
    /\ \E ok \in ConnectResults(manager, nconnects + 1) :
          IF ok
          THEN /\ conns' = push(conns, nconnects + 1)
               /\ live' = live \cup {nconnects + 1}
          ELSE UNCHANGED <<conns, live>>
    /\ UNCHANGED <<rt, config, manager, callers, phase, new_err, failed_conns, num_conns,
                   lock, waiters, helper_chan, closed, clientVars, helperVars,
                   nfailed, nerrs>>

NewConnect ==
    /\ phase = "connecting"
    /\ Len(conns) < config.initial_size
    /\ nconnects < MaxConnects
    /\ nconnects' = nconnects + 1
    /\ \E ok \in ConnectResults(manager, nconnects + 1) :
          IF ok
          THEN /\ conns' = push(conns, nconnects + 1)
               /\ live' = live \cup {nconnects + 1}
               /\ UNCHANGED <<phase, new_err>>
          ELSE /\ phase' = "connerr"
               /\ new_err' = nconnects + 1
               /\ conns' = <<>>
               /\ live' = {}
    /\ UNCHANGED <<rt, config, manager, callers, failed_conns, num_conns, lock, waiters,
                   helper_chan, closed, clientVars, helperVars, nfailed, nerrs>>

NewFinish ==
    /\ phase = "connecting"
    /\ Len(conns) = config.initial_size
    /\ phase' = "running"
    /\ hpc' = [h \in Helpers |->
                 IF h <= config.helper_tasks THEN "start" ELSE "unspawned"]
    /\ UNCHANGED <<rt, config, manager, callers, new_err, poolVars, lock, waiters, helper_chan,
                   closed, clientVars, hres, rlock, nconnects, live, nfailed, nerrs>>

\* ---- Pool::get ----------------------------------------------------------------
\* let mut internals = self.inner.internals.lock();
GetLockCore(t) ==
    /\ phase = "running"
    /\ t \in callers
    /\ ~closed
    /\ pc[t] = "idle"
    /\ lock = NoTask
    /\ lock' = t
    /\ pc' = [pc EXCEPT ![t] = "loop"]
    /\ UNCHANGED <<newVars, poolVars, waiters, helper_chan, closed, lease,
                   helperVars, nconnects, live, nfailed, nerrs>>

GetLock(t) == GetLockCore(t) /\ UNCHANGED rt

\* faulty variant: the connection handed out is left in the idle queue
GetTake_peek(t) ==
    /\ pc[t] = "loop"
    /\ conns # <<>>
    /\ lease' = [lease EXCEPT ![t] = front(conns)]
    /\ lock' = NoTask
    /\ pc' = [pc EXCEPT ![t] = "holding"]
    /\ UNCHANGED <<rt, newVars, poolVars, waiters, helper_chan, closed,
                   helperVars, nconnects, live, nfailed, nerrs>>

\* faulty variant: the connection is handed out without the check-out test
GetTake_untested(t) ==
    /\ pc[t] = "loop"
    /\ conns # <<>>
    /\ conns' = pop_front_rest(conns)
    /\ lease' = [lease EXCEPT ![t] = front(conns)]
    /\ lock' = NoTask
    /\ pc' = [pc EXCEPT ![t] = "holding"]
    /\ UNCHANGED <<rt, newVars, failed_conns, num_conns, waiters, helper_chan, closed,
                   helperVars, nconnects, live, nfailed, nerrs>>

\* Some(conn), and the connection passes the check-out test: return Ok(lease)
GetTake(t) ==
    /\ pc[t] = "loop"
    /\ conns # <<>>
    /\ \E valid \in IsValidResults(manager, front(conns)) :
          ~(config.test_on_check_out /\ ~valid)
    /\ conns' = pop_front_rest(conns)
    /\ lease' = [lease EXCEPT ![t] = front(conns)]
    /\ lock' = NoTask
    /\ pc' = [pc EXCEPT ![t] = "holding"]
    /\ UNCHANGED <<rt, newVars, failed_conns, num_conns, waiters, helper_chan, closed,
                   helperVars, nconnects, live, nfailed, nerrs>>

\* Some(conn), and is_valid fails: num_conns -= 1; continue
GetDiscardCore(t) ==
    /\ pc[t] = "loop"
    /\ conns # <<>>
    /\ \E valid \in IsValidResults(manager, front(conns)) :
          config.test_on_check_out /\ ~valid
    /\ conns' = pop_front_rest(conns)
    /\ live' = live \ {front(conns)}
    /\ num_conns' = USub(num_conns, 1)
    /\ UNCHANGED <<newVars, failed_conns, lock, waiters, helper_chan, closed,
                   clientVars, helperVars, nconnects, nfailed, nerrs>>

GetDiscard(t) == GetDiscardCore(t) /\ UNCHANGED rt

\* faulty variant: the error returned is left in failed_conns
GetErr_keep(t) ==
    /\ pc[t] = "loop"
    /\ conns = <<>>
    /\ failed_conns # <<>>
    /\ nerrs' = nerrs + 1
    /\ lock' = NoTask
    /\ pc' = [pc EXCEPT ![t] = "idle"]
    /\ UNCHANGED <<rt, newVars, poolVars, waiters, helper_chan, closed,
                   lease, helperVars, nconnects, live, nfailed>>

\* faulty variant: failed_conns is looked at before conns
GetErr_first(t) ==
    /\ pc[t] = "loop"
    /\ failed_conns # <<>>
    /\ failed_conns' = pop_front_rest(failed_conns)
    /\ nerrs' = nerrs + 1
    /\ lock' = NoTask
    /\ pc' = [pc EXCEPT ![t] = "idle"]
    /\ UNCHANGED <<rt, newVars, conns, num_conns, waiters, helper_chan, closed,
                   lease, helperVars, nconnects, live, nfailed>>

\* None, Some(err): return Err(err)
GetErr(t) ==
    /\ pc[t] = "loop"
    /\ conns = <<>>
    /\ failed_conns # <<>>
    /\ failed_conns' = pop_front_rest(failed_conns)
    /\ nerrs' = nerrs + 1
    /\ lock' = NoTask
    /\ pc' = [pc EXCEPT ![t] = "idle"]
    /\ UNCHANGED <<rt, newVars, conns, num_conns, waiters, helper_chan, closed,
                   lease, helperVars, nconnects, live, nfailed>>

\* faulty variant: the increment is not capped by max_size
new_conns_uncapped == config.acquire_increment

new_conns == Min(USub(config.max_size, num_conns), config.acquire_increment)

\* faulty variant: the commands sent are not counted in num_conns
GetWaitCore_nocount(t) ==
    /\ pc[t] = "loop"
    /\ conns = <<>>
    /\ failed_conns = <<>>
    /\ helper_chan' = helper_chan \o [i \in 1..new_conns |-> "AddConnection"]
    /\ lock' = NoTask
    /\ waiters' = waiters \cup {t}
    /\ pc' = [pc EXCEPT ![t] = "waiting"]
    /\ UNCHANGED <<newVars, poolVars, closed, lease,
                   helperVars, nconnects, live, nfailed, nerrs>>

\* None, None: send new_conns AddConnection commands, counting each in
\* num_conns, then internals.cond.wait(): release the mutex and block
GetWaitCore(t) ==
    /\ pc[t] = "loop"
    /\ conns = <<>>
    /\ failed_conns = <<>>
    /\ helper_chan' = helper_chan \o [i \in 1..new_conns |-> "AddConnection"]
    /\ num_conns' = UAdd(num_conns, new_conns)
    /\ lock' = NoTask
    /\ waiters' = waiters \cup {t}
    /\ pc' = [pc EXCEPT ![t] = "waiting"]
    /\ UNCHANGED <<newVars, conns, failed_conns, closed, lease,
                   helperVars, nconnects, live, nfailed, nerrs>>

GetWait(t) == GetWaitCore(t) /\ UNCHANGED rt

\* a signalled task re-acquires the mutex and goes round the loop
GetRelock(t) ==
    /\ pc[t] = "woken"
    /\ lock = NoTask
    /\ lock' = t
    /\ pc' = [pc EXCEPT ![t] = "loop"]
    /\ UNCHANGED <<rt, newVars, poolVars, waiters, helper_chan, closed, lease,
                   helperVars, nconnects, live, nfailed, nerrs>>

\* ---- PooledConnection ----------------------------------------------------------
\* faulty variant: the destructor never fails
drop_never_fails(conn) == FALSE

\* Drop for PooledConnection: fail!() if the connection is still there.
drop_fails(conn) == conn # None

\* faulty variant: replace drops the connection instead of putting it back
replace_lost(t) ==
    /\ pc[t] = "holding"
    /\ lease[t] # None
    /\ lock = NoTask
    /\ lease' = [lease EXCEPT ![t] = None]
    /\ live' = live \ {lease[t]}
    /\ signal([pc EXCEPT ![t] = "idle"])
    /\ UNCHANGED <<rt, newVars, poolVars, lock, helper_chan, closed,
                   helperVars, nconnects, nfailed, nerrs>>

\* replace(mut self): self.pool.put_back(self.conn.take_unwrap()); put_back
\* pushes the connection and signals under the mutex; then self goes out of
\* scope with conn = None and its destructor runs.
replace(t) ==
    /\ pc[t] = "holding"
    /\ lease[t] # None
    /\ lock = NoTask
    /\ conns' = push(conns, lease[t])
    /\ lease' = [lease EXCEPT ![t] = None]
    /\ signal([pc EXCEPT ![t] = IF drop_fails(lease'[t]) THEN "failed" ELSE "idle"])
    /\ UNCHANGED <<rt, newVars, failed_conns, num_conns, lock, helper_chan, closed,
                   helperVars, nconnects, live, nfailed, nerrs>>

\* The lease goes out of scope without replace: its destructor runs, and the
\* connection is dropped with it.
drop(t) ==
    /\ pc[t] = "holding"
    /\ pc' = [pc EXCEPT ![t] = IF drop_fails(lease[t]) THEN "failed" ELSE "idle"]
    /\ live' = live \ {lease[t]}
    /\ lease' = [lease EXCEPT ![t] = None]
    /\ UNCHANGED <<rt, newVars, poolVars, lock, waiters, helper_chan, closed,
                   helperVars, nconnects, nfailed, nerrs>>

\* The Pool goes out of scope: its Sender is dropped and the channel closes.
\* Leases borrow the Pool, so none is outstanding and no get is in progress.
DropPool ==
    /\ phase = "running"
    /\ ~closed
    /\ \A t \in callers : pc[t] \in {"idle", "failed"}
    /\ closed' = TRUE
    /\ UNCHANGED <<rt, newVars, poolVars, lock, waiters, helper_chan, clientVars,
                   helperVars, nconnects, live, nfailed, nerrs>>

\* ---- helper_task ------------------------------------------------------------------
\* let mut receiver = receiver.lock();
HelperLock(h) ==
    /\ hpc[h] = "start"
    /\ rlock = NoTask
    /\ rlock' = h
    /\ hpc' = [hpc EXCEPT ![h] = "recv"]
    /\ UNCHANGED <<rt, newVars, poolVars, lock, waiters, helper_chan, closed,
                   clientVars, hres, nconnects, live, nfailed, nerrs>>

\* faulty variant: add_connection takes the state lock before calling connect
HelperRecv_locked(h) ==
    /\ hpc[h] = "recv"
    /\ helper_chan # <<>>
    /\ lock = NoTask
    /\ lock' = -h
    /\ helper_chan' = Tail(helper_chan)
    /\ rlock' = NoTask
    /\ hpc' = [hpc EXCEPT ![h] = "connect"]
    /\ UNCHANGED <<rt, newVars, poolVars, waiters, closed, clientVars, hres,
                   nconnects, live, nfailed, nerrs>>

\* receiver.recv_opt() returns Ok(AddConnection); drop(receiver); the helper
\* enters add_connection and manager.connect, which returns at HelperConnect
HelperRecv(h) ==
    /\ hpc[h] = "recv"
    /\ helper_chan # <<>>
    /\ helper_chan' = Tail(helper_chan)
    /\ rlock' = NoTask
    /\ hpc' = [hpc EXCEPT ![h] = "connect"]
    /\ UNCHANGED <<rt, newVars, poolVars, lock, waiters, closed, clientVars, hres,
                   nconnects, live, nfailed, nerrs>>

\* receiver.recv_opt() returns Err(()): the channel is empty and closed; break
HelperExit(h) ==
    /\ hpc[h] = "recv"
    /\ helper_chan = <<>>
    /\ closed
    /\ rlock' = NoTask
    /\ hpc' = [hpc EXCEPT ![h] = "exited"]
    /\ UNCHANGED <<rt, newVars, poolVars, lock, waiters, helper_chan, closed,
                   clientVars, hres, nconnects, live, nfailed, nerrs>>

\* add_connection: let res = inner.manager.connect();
HelperConnect(h) ==
    /\ hpc[h] = "connect"
    /\ nconnects < MaxConnects
    /\ nconnects' = nconnects + 1
    /\ \E ok \in ConnectResults(manager, nconnects + 1) :
          /\ hres' = [hres EXCEPT ![h] = [ok |-> ok, id |-> nconnects + 1]]
          /\ live' = IF ok THEN live \cup {nconnects + 1} ELSE live
          /\ nfailed' = IF ok THEN nfailed ELSE nfailed + 1
    /\ hpc' = [hpc EXCEPT ![h] = "publish"]
    /\ UNCHANGED <<rt, newVars, poolVars, lock, waiters, helper_chan, closed,
                   clientVars, rlock, nerrs>>

\* faulty variant: a failed connect is not taken off num_conns
HelperPublish_nodec(h) ==
    /\ hpc[h] = "publish"
    /\ lock = NoTask
    /\ IF hres[h].ok
       THEN /\ conns' = push(conns, hres[h].id)
            /\ UNCHANGED <<failed_conns, num_conns>>
       ELSE /\ failed_conns' = push(failed_conns, hres[h].id)
            /\ UNCHANGED <<conns, num_conns>>
    /\ signal(pc)
    /\ hres' = [hres EXCEPT ![h] = NoResult]
    /\ hpc' = [hpc EXCEPT ![h] = "start"]
    /\ UNCHANGED <<rt, newVars, lock, helper_chan, closed, lease, rlock,
                   nconnects, live, nfailed, nerrs>>

\* add_connection: lock, push the connection or the error, signal
HelperPublishCore(h) ==
    /\ hpc[h] = "publish"
    /\ lock = NoTask
    /\ IF hres[h].ok
       THEN /\ conns' = push(conns, hres[h].id)
            /\ UNCHANGED <<failed_conns, num_conns>>
       ELSE /\ failed_conns' = push(failed_conns, hres[h].id)
            /\ num_conns' = USub(num_conns, 1)
            /\ conns' = conns
    /\ signal(pc)
    /\ hres' = [hres EXCEPT ![h] = NoResult]
    /\ hpc' = [hpc EXCEPT ![h] = "start"]
    /\ UNCHANGED <<newVars, lock, helper_chan, closed, lease, rlock,
                   nconnects, live, nfailed, nerrs>>

HelperPublish(h) == HelperPublishCore(h) /\ UNCHANGED rt

\* ---- the specification ----------------------------------------------------------
Next ==
    \/ NewInvalid
    \/ NewBegin
    \/ NewConnect
    \/ NewFinish
    \/ DropPool
    \/ \E t \in Clients :
          \/ GetLock(t)
          \/ GetTake(t)
          \/ GetDiscard(t)
          \/ GetErr(t)
          \/ GetWait(t)
          \/ GetRelock(t)
          \/ replace(t)
          \/ drop(t)
    \/ \E h \in Helpers :
          \/ HelperLock(h)
          \/ HelperRecv(h)
          \/ HelperExit(h)
          \/ HelperConnect(h)
          \/ HelperPublish(h)

Spec == Init /\ [][Next]_vars

\* ---- quantities the claims speak of ------------------------------------------------
\* AddConnection commands queued, or received by a helper and not yet published
in_flight ==
    Len(helper_chan) + Cardinality({h \in Helpers : hpc[h] \in {"connect", "publish"}})

\* connections held by outstanding leases
held == Cardinality({t \in Clients : lease[t] # None})

\* connections destroyed with a lease that went out of scope unreleased
lost == Cardinality({t \in Clients : pc[t] = "failed"})

\* number of places (idle queue, leases, helpers about to publish) holding c
places(c) ==
    Cardinality({i \in 1..Len(conns) : conns[i] = c})
    + Cardinality({t \in Clients : lease[t] = c})
    + Cardinality({h \in Helpers : hpc[h] = "publish" /\ hres[h].ok /\ hres[h].id = c})

\* ---- C1 ------------------------------------------------------------------------------
\* C1: in every state of a constructed pool num_conns <= config.max_size, so
\* the unsigned subtraction max_size - num_conns in get does not wrap.
C1_TotalAtMostMax ==
    phase = "running" =>
        /\ num_conns <= config.max_size
        /\ USub(config.max_size, num_conns) = config.max_size - num_conns

\* A get has filled the pool up to max_size sending fewer commands than
\* acquire_increment, and waits.
C1_Witness ==
    /\ phase = "running"
    /\ \E t \in Clients : pc[t] = "waiting"
    /\ num_conns = config.max_size
    /\ helper_chan # <<>>
    /\ \A h \in Helpers : hpc[h] \in {"unspawned", "start", "recv"}
    /\ nconnects = config.initial_size
    /\ Len(helper_chan) < config.acquire_increment

\* ---- C2 ------------------------------------------------------------------------------
\* C2 as stated: with the state lock free, num_conns = idle + connections held
\* by outstanding leases + AddConnection commands in flight.
C2_Original ==
    (phase = "running" /\ lock = NoTask) =>
        num_conns = Len(conns) + held + in_flight

\* C2 amended: with the state lock free, num_conns = idle + connections held by
\* outstanding leases + AddConnection commands in flight + connections
\* destroyed with a lease that went out of scope without replace (these stay
\* counted); every decrement removes one counted item, so num_conns never wraps
\* below zero.
C2_Accounting ==
    (phase = "running" /\ lock = NoTask) =>
        num_conns = Len(conns) + held + in_flight + lost

C2_Witness ==
    /\ phase = "running"
    /\ lock = NoTask
    /\ lost > 0
    /\ nfailed > 0
    /\ in_flight > 0

\* ---- C3 ------------------------------------------------------------------------------
\* C3: every existing connection is in exactly one place (the idle queue, one
\* lease, or a helper about to publish it), and a dropped one is nowhere.
C3_OnePlace ==
    phase = "running" =>
        \A c \in 1..MaxConnects : places(c) = IF c \in live THEN 1 ELSE 0

\* one connection is leased again after a release while another is idle
C3_Witness ==
    /\ phase = "running"
    /\ \E t \in Clients : lease[t] = 1 /\ pc[t] = "holding"
    /\ conns = <<2>>
    /\ config.initial_size = 0

\* ---- C4 ------------------------------------------------------------------------------
\* Saturation: max_size + 1 callers each call get once and never release, the
\* manager always connects and always validates.
InitSat ==
    /\ config \in {c \in Configs : validate(c)}
    /\ manager = "OkManager"
    /\ callers = 1..(config.max_size + 1)
    /\ InitCommon

NextSat ==
    \/ NewBegin
    \/ NewConnect
    \/ NewFinish
    \/ \E t \in Clients :
          \/ GetLock(t)
          \/ GetTake(t)
          \/ GetWait(t)
          \/ GetRelock(t)
    \/ \E h \in Helpers :
          \/ HelperLock(h)
          \/ HelperRecv(h)
          \/ HelperConnect(h)
          \/ HelperPublish(h)

SpecSat == InitSat /\ [][NextSat]_vars /\ WF_vars(NextSat)

\* C4: eventually, and from then on for ever, exactly max_size callers hold a
\* lease and the remaining one is blocked on the condition, unsignalled.
C4_Saturation ==
    <>[](/\ Cardinality({t \in callers : pc[t] = "holding" /\ lease[t] # None})
               = config.max_size
         /\ Cardinality({t \in callers : pc[t] = "waiting" /\ t \in waiters}) = 1)

C4_Witness ==
    /\ manager = "OkManager"
    /\ config.max_size = 2
    /\ config.initial_size = 0
    /\ config.acquire_increment = 2
    /\ config.helper_tasks = 2
    /\ Cardinality({t \in callers : pc[t] = "holding"}) = 2
    /\ Cardinality({t \in callers : pc[t] = "waiting"}) = 1

\* ---- C5 ------------------------------------------------------------------------------
\* errors a helper has got from connect and not yet pushed into failed_conns
unpublished_errors ==
    Cardinality({h \in Helpers : hpc[h] = "publish" /\ ~hres[h].ok})

\* C5 as stated: at every moment the connect failures seen by helpers equal the
\* errors returned by get plus the errors in failed_conns.
C5_Original ==
    phase = "running" => nfailed = nerrs + Len(failed_conns)

\* C5 amended: the connect failures seen by helpers equal the errors returned
\* by get plus the errors in failed_conns plus the errors a helper holds between
\* the return of connect and its push under the state lock; so none is lost or
\* duplicated and each get returning an error takes exactly one off failed_conns.
C5_ErrorsConserved ==
    phase = "running" =>
        nfailed = nerrs + Len(failed_conns) + unpublished_errors

C5_Witness ==
    /\ phase = "running"
    /\ nerrs = 1
    /\ Len(failed_conns) = 1
    /\ nfailed = 2

\* ---- C6 ------------------------------------------------------------------------------
\* C6: Pool::new connects sequentially and stops at the first failure: while
\* it connects every call so far has succeeded; it returns a pool exactly when
\* initial_size calls have succeeded, with num_conns = initial_size, conns
\* holding those connections and failed_conns empty; when the k-th call fails
\* it returns ConnectionError with that error after exactly k calls, no pool
\* exists, no helper was spawned, and nothing happens afterwards.
C6_New ==
    /\ [](phase = "connecting" =>
            /\ conns = [i \in 1..nconnects |-> i]
            /\ nconnects <= config.initial_size)
    /\ [](phase = "connerr" =>
            /\ new_err = nconnects
            /\ new_err \in 1..config.initial_size
            /\ conns = <<>>
            /\ \A h \in Helpers : hpc[h] = "unspawned")
    /\ [][(phase = "connecting" /\ phase' = "running") =>
            /\ validate(config)
            /\ nconnects' = config.initial_size
            /\ num_conns' = config.initial_size
            /\ conns' = [i \in 1..config.initial_size |-> i]
            /\ failed_conns' = <<>>]_vars
    /\ [][phase = "connerr" => phase' = "connerr" /\ nconnects' = nconnects]_vars

C6_Witness ==
    /\ phase = "connerr"
    /\ config.initial_size = 2
    /\ new_err = 2
    /\ nconnects = 2

\* ---- C8 ------------------------------------------------------------------------------
\* C8: a lease ends in exactly one of two ways.  Either replace appends its
\* connection to conns once and the task goes on (its destructor finds the
\* lease empty and does not fail), or it goes out of scope holding the
\* connection, the task fails and the connection never reaches conns.  A task
\* without a lease holds no connection, so nothing can be released twice, and a
\* failed task stays failed.
C8_LeaseEnds ==
    /\ [](\A t \in Clients : pc[t] # "holding" => lease[t] = None)
    /\ [](\A i \in 1..Len(conns) : conns[i] \in live)
    /\ [][\A t \in Clients :
            (lease[t] # None /\ lease'[t] = None) =>
               \/ /\ conns' = Append(conns, lease[t])
                  /\ pc'[t] = "idle"
                  /\ lease[t] \in live'
               \/ /\ conns' = conns
                  /\ pc'[t] = "failed"
                  /\ lease[t] \notin live']_vars
    /\ [][\A t \in Clients : pc[t] = "failed" => pc'[t] = "failed"]_vars

\* connection 1 was leased and released, connection 2 was lost with its lease
C8_Witness ==
    /\ phase = "running"
    /\ config.initial_size = 2
    /\ nconnects = 2
    /\ conns = <<1>>
    /\ live = {1}
    /\ \E t \in Clients : pc[t] = "failed"

\* ---- C9 ------------------------------------------------------------------------------
\* C9: the idle queue is FIFO: a step that adds a connection appends it at the
\* back, a step that removes one removes the front, and the connection a get
\* hands out is the front of the queue.
C9_Fifo ==
    /\ [][(phase = "running" /\ Len(conns') > Len(conns)) =>
            \E c \in 1..MaxConnects : conns' = Append(conns, c)]_vars
    /\ [][(phase = "running" /\ Len(conns') < Len(conns)) =>
            conns' = Tail(conns)]_vars
    /\ [][\A t \in Clients :
            (lease[t] = None /\ lease'[t] # None) =>
               /\ conns # <<>>
               /\ lease'[t] = Head(conns)
               /\ conns' = Tail(conns)]_vars

\* connection 1 went to the back when it was released, and the next get took
\* connection 2, which had been idle longer
C9_Witness ==
    /\ phase = "running"
    /\ config.initial_size = 2
    /\ conns = <<1>>
    /\ \E t \in Clients : lease[t] = 2
    /\ lost = 0

\* ---- C7 ------------------------------------------------------------------------------
\* One task uses the pool, calling get and replace in turn; rt records the
\* size of conns when its get takes the lock, and whether conns has since been
\* touched by anything but the pop that handed out the connection.
RtGetLock(t) ==
    /\ GetLockCore(t)
    /\ rt' = [idle0 |-> Len(conns), clean |-> TRUE]

RtGetDiscard(t) ==
    /\ GetDiscardCore(t)
    /\ rt' = [rt EXCEPT !.clean = FALSE]

RtGetWait(t) ==
    /\ GetWaitCore(t)
    /\ rt' = [rt EXCEPT !.clean = FALSE]

RtHelperPublish(h) ==
    /\ HelperPublishCore(h)
    /\ rt' = [rt EXCEPT !.clean = FALSE]

InitRoundTrip ==
    /\ config \in {c \in Configs : validate(c)}
    /\ manager = "Any"
    /\ callers = {1}
    /\ InitCommon

NextRoundTrip ==
    \/ NewBegin
    \/ NewConnect
    \/ NewFinish
    \/ \E t \in Clients :
          \/ RtGetLock(t)
          \/ GetTake(t)
          \/ RtGetDiscard(t)
          \/ GetErr(t)
          \/ RtGetWait(t)
          \/ GetRelock(t)
          \/ replace(t)
    \/ \E h \in Helpers :
          \/ HelperLock(h)
          \/ HelperRecv(h)
          \/ HelperConnect(h)
          \/ RtHelperPublish(h)

SpecRoundTrip == InitRoundTrip /\ [][NextRoundTrip]_vars

\* the step of task t is the replace of its lease
ReplaceStep(t) == pc[t] = "holding" /\ lease[t] # None /\ lease'[t] = None

\* C7 as stated: after a successful get followed by replace, conns has the
\* size it had before the get.
C7_Original ==
    [][\A t \in Clients : ReplaceStep(t) => Len(conns') = rt.idle0]_vars

\* C7 amended: when the get returned the connection it found at the front of
\* conns on its first pop (it discarded no invalid connection and did not
\* wait), and no helper published into the pool between the start of the get
\* and the replace, conns has after the replace the size it had before the get.
C7_RoundTrip ==
    [][\A t \in Clients :
         (ReplaceStep(t) /\ rt.clean) => Len(conns') = rt.idle0]_vars

\* a clean round trip over a queue of two: connection 1 has gone to the back
C7_Witness ==
    /\ phase = "running"
    /\ pc[1] = "idle"
    /\ rt = [idle0 |-> 2, clean |-> TRUE]
    /\ conns = <<2, 1>>
    /\ lock = NoTask

\* ---- C10 -----------------------------------------------------------------------------
\* One task calls get, and replace when it got a lease, again and again, on a
\* pool with initial_size = 0 and max_size = 1 whose manager fails the first
\* connect and no later one.
InitRecover ==
    /\ config \in {c \in Configs :
                     validate(c) /\ c.initial_size = 0 /\ c.max_size = 1}
    /\ manager = "FailOnce"
    /\ callers = {1}
    /\ InitCommon

NextRecover ==
    \/ NewBegin
    \/ NewFinish
    \/ \E t \in Clients :
          \/ GetLock(t)
          \/ GetTake(t)
          \/ GetErr(t)
          \/ GetWait(t)
          \/ GetRelock(t)
          \/ replace(t)
    \/ \E h \in Helpers :
          \/ HelperLock(h)
          \/ HelperRecv(h)
          \/ HelperConnect(h)
          \/ HelperPublish(h)

SpecRecover == InitRecover /\ [][NextRecover]_vars /\ WF_vars(NextRecover)

\* C10: the first get returns the connect error (no lease is handed out before
\* an error was returned), no later get returns an error, every lease is on the
\* connection made by the second connect, after which no AddConnection is ever
\* pending again (so no third connect is made), and the task gets that
\* connection again and again.
C10_Recovery ==
    /\ [](/\ nerrs <= 1
          /\ \A t \in Clients : lease[t] # None => (nerrs = 1 /\ lease[t] = 2)
          /\ nconnects >= 2 => (nconnects = 2 /\ helper_chan = <<>>
                                 /\ \A h \in Helpers : hpc[h] # "connect"))
    /\ []<>(pc[1] = "holding" /\ lease[1] = 2)
    /\ []<>(pc[1] = "idle" /\ conns = <<2>>)

\* the lease on connection 2 has been released and taken again
C10_Witness ==
    /\ manager = "FailOnce"
    /\ nerrs = 1
    /\ nconnects = 2
    /\ pc[1] = "holding"
    /\ lease[1] = 2
    /\ conns = <<>>
    /\ num_conns = 1

\* ---- C11 -----------------------------------------------------------------------------
\* test_acquire_fail: a pool with initial_size = 0 and max_size >= 2 over a
\* manager whose first connect succeeds and every later one fails.  A task
\* calls get, and, holding what that get returned, calls get again.  Client 1
\* stands for the first call and client 2 for the second, which starts only
\* when the first has returned a lease, so the two calls are sequential.
InitAcquireFail ==
    /\ config \in {c \in Configs :
                     validate(c) /\ c.initial_size = 0 /\ c.max_size >= 2}
    /\ manager = "NthConnectFailManager"
    /\ callers = {1, 2}
    /\ InitCommon

\* let c1 = pool.get().unwrap(); assert!(pool.get().is_err());
AcquireFailGet(t) ==
    /\ nerrs = 0
    /\ t = 1 \/ (t = 2 /\ pc[1] = "holding")
    /\ GetLock(t)

NextAcquireFail ==
    \/ NewBegin
    \/ NewFinish
    \/ \E t \in Clients :
          \/ AcquireFailGet(t)
          \/ GetTake(t)
          \/ GetErr(t)
          \/ GetWait(t)
          \/ GetRelock(t)
    \/ \E h \in Helpers :
          \/ HelperLock(h)
          \/ HelperRecv(h)
          \/ HelperConnect(h)
          \/ HelperPublish(h)

SpecAcquireFail ==
    InitAcquireFail /\ [][NextAcquireFail]_vars /\ WF_vars(NextAcquireFail)

\* C11 as stated: for every acquire_increment >= 1, every number of helpers
\* >= 1 and every interleaving, the first get returns a lease (it is never the
\* call that returns an error) and the second get, made while that lease is
\* held, returns an error (never a lease).
C11_Original ==
    phase = "running" =>
        /\ nerrs > 0 => (pc[1] = "holding" /\ lease[1] # None)
        /\ lease[2] = None

\* ---- C12 -----------------------------------------------------------------------------
\* test_acquire_release: one task makes a sequence of get and replace calls on
\* a pool over OkManager.  The clients stand for the leases the task may hold
\* at once; the task makes one call at a time, so no call starts while a get
\* is in progress (also when that get blocks).
no_call_in_progress == \A u \in callers : pc[u] \in {"idle", "holding"}

InitSequential ==
    /\ config \in {c \in Configs : validate(c) /\ c.initial_size >= 1}
    /\ manager = "OkManager"
    /\ callers = 1..(config.initial_size + 1)
    /\ InitCommon

SequentialGet(t) == no_call_in_progress /\ GetLock(t)

SequentialReplace(t) == no_call_in_progress /\ replace(t)

NextSequential ==
    \/ NewBegin
    \/ NewConnect
    \/ NewFinish
    \/ \E t \in Clients :
          \/ SequentialGet(t)
          \/ GetTake(t)
          \/ GetWait(t)
          \/ GetRelock(t)
          \/ SequentialReplace(t)
    \/ \E h \in Helpers :
          \/ HelperLock(h)
          \/ HelperRecv(h)
          \/ HelperConnect(h)
          \/ HelperPublish(h)

SpecSequential == InitSequential /\ [][NextSequential]_vars

\* the pool holds exactly its initial connections, nothing was asked of the
\* helpers, nobody waits, and a get in progress finds an idle connection
Quiet ==
    /\ num_conns = config.initial_size
    /\ Len(conns) + held = config.initial_size
    /\ failed_conns = <<>>
    /\ helper_chan = <<>>
    /\ in_flight = 0
    /\ nconnects = config.initial_size
    /\ waiters = {}
    /\ \A t \in Clients : pc[t] \in {"idle", "loop", "holding"}
    /\ \A t \in Clients : pc[t] = "loop" => conns # <<>>

\* a get is called while initial_size leases are outstanding
ExceedingGet ==
    /\ held >= config.initial_size
    /\ \E t \in Clients : pc[t] = "idle" /\ pc'[t] = "loop"

\* C12: on a pool built with initial_size = n >= 1 over an always-succeeding
\* manager, as long as the sequence of get and replace calls has never more
\* than n leases outstanding, every get finds an idle connection and returns
\* it without waiting on the condition, no AddConnection is sent, and
\* num_conns stays n: the pool is Quiet when Pool::new returns, and every step
\* that is not a get called with n leases outstanding keeps it Quiet.
C12_SequentialUse ==
    /\ [][(phase = "connecting" /\ phase' = "running") => Quiet']_vars
    /\ [][(phase = "running" /\ Quiet /\ ~ExceedingGet) => Quiet']_vars
    /\ [][\A t \in Clients :
            (phase = "running" /\ Quiet /\ pc[t] = "loop" /\ pc'[t] # "loop") =>
               (pc'[t] = "holding" /\ lease'[t] = Head(conns))]_vars

\* get, get, replace, get as in test_acquire_release: connection 1 is leased
\* for the second time, connection 2 is still leased
C12_Witness ==
    /\ phase = "running"
    /\ Quiet
    /\ config.initial_size = 2
    /\ pc[1] = "idle"
    /\ lease[2] = 2
    /\ lease[3] = 1

\* ---- C13 -----------------------------------------------------------------------------
\* helpers inside manager.connect (the call has not returned)
stalled == {h \in Helpers : hpc[h] = "connect"}

\* no client is inside the critical section of get
no_get_in_loop == \A u \in Clients : pc[u] # "loop"

\* C13: in a constructed pool the state lock is only ever held by a client
\* inside get (the one place where a manager call, is_valid, is made under
\* it), never by a helper calling connect; a connect call returns without
\* having touched the lock; and however many helpers are stalled inside
\* connect, a get can take the lock when no other get has it, a get that
\* finds a connection passing the check-out test returns it, and a replace
\* can complete when no get has the lock.
C13_ConnectOutsideLock ==
    /\ [](phase = "running" =>
            /\ lock # NoTask => (lock \in callers /\ pc[lock] = "loop")
            /\ \A t \in callers :
                  /\ (pc[t] = "idle" /\ ~closed /\ no_get_in_loop)
                        => ENABLED GetLock(t)
                  /\ (pc[t] = "loop" /\ conns # <<>>
                        /\ (TRUE \in IsValidResults(manager, front(conns))))
                        => ENABLED GetTake(t)
                  /\ (pc[t] = "holding" /\ lease[t] # None /\ no_get_in_loop)
                        => ENABLED replace(t))
    /\ [][(phase = "running" /\ nconnects' # nconnects) =>
            /\ lock' = lock
            /\ lock # NoTask => (lock \in callers /\ pc[lock] = "loop")]_vars

\* while a helper is stalled inside connect, the holder of connection 1 has
\* released it and the waiting client has been handed it
C13_Witness ==
    /\ phase = "running"
    /\ stalled # {}
    /\ config.initial_size = 1
    /\ nconnects = 1
    /\ nfailed = 0
    /\ nerrs = 0
    /\ lost = 0
    /\ num_conns = 2
    /\ \E t \in callers : /\ pc[t] = "holding" /\ lease[t] = 1
                           /\ \E u \in callers \ {t} : pc[u] = "idle"

\* ---- C14 -----------------------------------------------------------------------------
\* Shutdown: clients use a pool over OkManager and release what they get; at
\* some moment with no lease outstanding the Pool is dropped.  Every helper
\* keeps running: its receive returns when a command or the hang-up arrives,
\* connect returns, and the state lock is granted to it.
InitShutdown ==
    /\ config \in {c \in Configs : validate(c)}
    /\ manager = "OkManager"
    /\ callers = 1..NumClients
    /\ InitCommon

helper_step(h) ==
    \/ HelperLock(h)
    \/ HelperRecv(h)
    \/ HelperExit(h)
    \/ HelperConnect(h)
    \/ HelperPublish(h)

NextShutdown ==
    \/ NewBegin
    \/ NewConnect
    \/ NewFinish
    \/ DropPool
    \/ \E t \in Clients :
          \/ GetLock(t)
          \/ GetTake(t)
          \/ GetWait(t)
          \/ GetRelock(t)
          \/ replace(t)
    \/ \E h \in Helpers :
          \/ HelperLock(h)
          \/ HelperRecv(h)
          \/ HelperExit(h)
          \/ HelperConnect(h)
          \/ HelperPublish(h)

SpecShutdown ==
    /\ InitShutdown
    /\ [][NextShutdown]_vars
    /\ \A h \in Helpers : WF_vars(helper_step(h))

\* the helper tasks Pool::new spawned
spawned == 1..config.helper_tasks

\* C14 as stated: once the channel is closed every helper eventually leaves
\* its loop, whatever their number and also when one waits for the receiver
\* lock while another holds it inside the receive; and after the channel is
\* closed no AddConnection is executed: no helper takes a command and no
\* connect is called.
C14_Original ==
    /\ closed ~> (\A h \in spawned : hpc[h] = "exited")
    /\ [][closed => (helper_chan' = helper_chan /\ nconnects' = nconnects)]_vars

\* ---- C15 -----------------------------------------------------------------------------
\* the number of creations the spec asks for, in unbounded integers
deficit == Min(config.max_size - num_conns, config.acquire_increment)

\* C15: a get that finds conns and failed_conns empty leaves its loop only by
\* waiting on the condition, and every step by which a get starts waiting
\* (on its first pass or on a pass after a wake-up) was taken with conns and
\* failed_conns empty, appended exactly min(max_size - num_conns,
\* acquire_increment) AddConnection commands to the channel and added exactly
\* that number to num_conns; when num_conns = max_size it sends nothing.
C15_Deficit ==
    [][\A t \in Clients :
         /\ (pc[t] = "loop" /\ pc'[t] = "waiting") =>
               /\ conns = <<>> /\ failed_conns = <<>>
               /\ deficit \in 0..config.acquire_increment
               /\ helper_chan' =
                     helper_chan \o [i \in 1..deficit |-> "AddConnection"]
               /\ num_conns' = num_conns + deficit
               /\ num_conns = config.max_size =>
                     (helper_chan' = helper_chan /\ num_conns' = num_conns)
               /\ t \in waiters' /\ lock' = NoTask
               /\ conns' = conns /\ failed_conns' = failed_conns
         /\ (pc[t] = "loop" /\ conns = <<>> /\ failed_conns = <<>>
               /\ pc'[t] # "loop") => pc'[t] = "waiting"]_vars

\* the first get sent acquire_increment = max_size commands, the second found
\* num_conns = max_size and sent none; both wait
C15_Witness ==
    /\ phase = "running"
    /\ config.initial_size = 0
    /\ config.max_size = 2
    /\ config.acquire_increment = 2
    /\ num_conns = 2
    /\ Len(helper_chan) = 2
    /\ waiters = {1, 2}
    /\ nconnects = 0

\* ---- C16 -----------------------------------------------------------------------------
\* Check-out testing: test_on_check_out is set.  Either two clients use a pool
\* over an arbitrary manager, or one client calls get once on a poisoned pool:
\* every connection Pool::new made fails is_valid, every later one passes, and
\* connect succeeds.
InitCheckOut ==
    /\ config \in {c \in Configs : validate(c) /\ c.test_on_check_out}
    /\ \/ manager = "Any" /\ callers = {1, 2}
       \/ /\ manager = "Poisoned" /\ callers = {1}
          /\ config.initial_size \in 1..(MaxConnects - 1)
    /\ InitCommon

\* on the poisoned pool the one client calls get and keeps what it gets
CheckOutReplace(t) == manager = "Any" /\ replace(t)

NextCheckOut ==
    \/ NewBegin
    \/ NewConnect
    \/ NewFinish
    \/ \E t \in Clients :
          \/ GetLock(t)
          \/ GetTake(t)
          \/ GetDiscard(t)
          \/ GetErr(t)
          \/ GetWait(t)
          \/ GetRelock(t)
          \/ CheckOutReplace(t)
    \/ \E h \in Helpers :
          \/ HelperLock(h)
          \/ HelperRecv(h)
          \/ HelperConnect(h)
          \/ HelperPublish(h)

SpecCheckOut == InitCheckOut /\ [][NextCheckOut]_vars /\ WF_vars(NextCheckOut)

\* the connections Pool::new made
initial_conns == 1..config.initial_size

\* C16: with test_on_check_out set, a connection that fails is_valid during a
\* get is dropped on the spot: it leaves conns, is never in a lease, and
\* num_conns goes down by exactly one (without wrapping) while the get stays
\* in its loop, and nothing else changes the pool while a get is in its loop; a lease always holds an existing connection, taken from the
\* front of conns without changing num_conns.  On a poisoned pool no bad
\* connection is ever handed out, the get waits for a creation only once conns
\* is drained and num_conns has come down to zero, and it eventually returns a
\* lease on a newly created connection.
C16_CheckOut ==
    /\ [](\A t \in Clients : lease[t] # None => lease[t] \in live)
    /\ [][\A t \in Clients :
            (pc[t] = "loop" /\ pc'[t] = "loop" /\ poolVars' # poolVars) =>
               /\ config.test_on_check_out
               /\ conns # <<>>
               /\ conns' = Tail(conns)
               /\ num_conns' = num_conns - 1
               /\ Head(conns) \notin live'
               /\ \A u \in Clients : lease'[u] = lease[u] /\ lease[u] # Head(conns)
               /\ failed_conns' = failed_conns /\ helper_chan' = helper_chan]_vars
    /\ [][\A t \in Clients :
            (pc[t] = "loop" /\ pc'[t] = "holding") =>
               /\ lease'[t] = Head(conns)
               /\ lease'[t] \in live'
               /\ num_conns' = num_conns]_vars
    /\ [](manager = "Poisoned" =>
            /\ \A t \in Clients : lease[t] \notin initial_conns
            /\ \A t \in Clients : pc[t] \in {"waiting", "woken", "holding"} =>
                  (live \cap initial_conns = {} /\ nconnects >= config.initial_size))
    /\ [][(manager = "Poisoned" /\ 1 \in waiters' /\ 1 \notin waiters) =>
            (conns = <<>> /\ num_conns = 0 /\ num_conns' = deficit)]_vars
    /\ (manager = "Poisoned") =>
            <>(pc[1] = "holding" /\ lease[1] > config.initial_size)

\* the poisoned pool was drained and the get returned a new connection
C16_Witness ==
    /\ manager = "Poisoned"
    /\ config.initial_size = MaxConnects - 1
    /\ pc[1] = "holding"
    /\ lease[1] = config.initial_size + 1
    /\ live = {lease[1]}
    /\ num_conns = config.acquire_increment

\* ---- C17 -----------------------------------------------------------------------------
\* C17: a get returns an error only in a step taken under the state lock with
\* conns empty, and that step takes the front of failed_conns; a get in its
\* loop that finds conns non-empty never touches failed_conns and returns no
\* error: it either discards the front connection and stays in the loop or
\* returns it, so an error waiting in failed_conns stays there for a later get.
C17_ConnectionFirst ==
    [][\A t \in Clients :
         /\ (pc[t] = "loop" /\ pc'[t] = "idle") =>
               /\ lock = t
               /\ conns = <<>> /\ conns' = conns
               /\ failed_conns # <<>>
               /\ failed_conns' = Tail(failed_conns)
               /\ nerrs' = nerrs + 1
         /\ (nerrs' # nerrs) => \E u \in Clients : pc[u] = "loop" /\ pc'[u] = "idle"
         /\ (pc[t] = "loop" /\ conns # <<>>) =>
               /\ failed_conns' = failed_conns
               /\ nerrs' = nerrs
               /\ pc'[t] \in {"loop", "holding"}
               /\ pc'[t] = "holding" => lease'[t] = Head(conns)]_vars

\* the only helper published the error of connect 1 and then connection 2;
\* the get returned connection 2 and the error is still in failed_conns
C17_Witness ==
    /\ phase = "running"
    /\ config.initial_size = 0
    /\ config.helper_tasks = 1
    /\ failed_conns = <<1>>
    /\ nerrs = 0
    /\ \E t \in callers : pc[t] = "holding" /\ lease[t] = 2

\* ---- C18 -----------------------------------------------------------------------------
\* the step signals the condition exactly once: it wakes exactly one blocked
\* task, or nobody when none is blocked; newpc is pc as the signalling task
\* leaves it
one_signal(newpc) ==
    \/ waiters = {} /\ waiters' = {} /\ pc' = newpc
    \/ \E w \in waiters : /\ waiters' = waiters \ {w}
                           /\ pc' = [newpc EXCEPT ![w] = "woken"]

\* C18: a helper executes each AddConnection it receives by one connect call
\* and one publication; the publication of a connection appends it to conns
\* and leaves num_conns and failed_conns unchanged, the publication of an
\* error appends it to failed_conns, takes one off num_conns (without
\* wrapping) and leaves conns unchanged; either signals the condition exactly
\* once.  A replace appends its connection to conns, leaves num_conns and
\* failed_conns unchanged and signals exactly once.
C18_Effects ==
    /\ [][\A h \in Helpers :
            /\ (hpc[h] = "connect" /\ hpc'[h] # "connect") =>
                  /\ hpc'[h] = "publish"
                  /\ nconnects' = nconnects + 1
                  /\ hres'[h].id = nconnects'
                  /\ poolVars' = poolVars /\ waiters' = waiters /\ pc' = pc
            /\ (hpc[h] = "publish" /\ hpc'[h] # "publish") =>
                  /\ hpc'[h] = "start"
                  /\ nconnects' = nconnects
                  /\ IF hres[h].ok
                     THEN /\ conns' = Append(conns, hres[h].id)
                          /\ num_conns' = num_conns
                          /\ failed_conns' = failed_conns
                     ELSE /\ failed_conns' = Append(failed_conns, hres[h].id)
                          /\ num_conns' = num_conns - 1
                          /\ conns' = conns
                  /\ one_signal(pc)
            /\ (hpc'[h] = "publish") => hpc[h] \in {"connect", "publish"}]_vars
    /\ [][\A t \in Clients :
            (lease[t] # None /\ lease'[t] = None /\ pc'[t] = "idle") =>
               /\ conns' = Append(conns, lease[t])
               /\ num_conns' = num_conns
               /\ failed_conns' = failed_conns
               /\ one_signal([pc EXCEPT ![t] = "idle"])]_vars

\* two gets wait for one creation each; the first connect failed and its
\* publication woke exactly one of them
C18_Witness ==
    /\ phase = "running"
    /\ config.initial_size = 0
    /\ nconnects = 1
    /\ failed_conns = <<1>>
    /\ num_conns = 1
    /\ Cardinality(waiters) = 1
    /\ \E t \in callers : pc[t] = "woken"
    /\ nerrs = 0

\* ---- C19 -----------------------------------------------------------------------------
\* a get is blocked on the condition with nothing left that could wake it: no
\* signal is on its way to any task, no get is in progress, conns and
\* failed_conns are empty, no AddConnection is queued or executing
stranded ==
    /\ phase = "running"
    /\ waiters # {}
    /\ lock = NoTask
    /\ \A u \in Clients : pc[u] \in {"idle", "holding", "failed", "waiting"}
    /\ conns = <<>>
    /\ failed_conns = <<>>
    /\ in_flight = 0

\* C19 as stated: no state is reachable in which a get is blocked and
\* unsignalled, conns and failed_conns are empty, no AddConnection is queued
\* or executing, and num_conns < max_size.
C19_Original == ~(stranded /\ num_conns < config.max_size)

\* ---- C20 -----------------------------------------------------------------------------
\* C20: the errors in failed_conns and the AddConnection commands queued or
\* executing are together at most max_size, so failed_conns never holds more
\* than max_size errors, however many connects fail.
C20_ErrorsBounded ==
    phase = "running" =>
        /\ Len(failed_conns) + in_flight <= config.max_size
        /\ Len(failed_conns) <= config.max_size

\* every creation a get asked for has failed and nobody has taken an error:
\* failed_conns is as long as it can get
C20_Witness ==
    /\ phase = "running"
    /\ config.max_size = 2
    /\ Len(failed_conns) = config.max_size
    /\ nfailed = 2
    /\ in_flight = 0

TypeOK ==
    /\ num_conns \in 0..(UintModulus - 1)
    /\ lock \in Clients \cup Helpers \cup {NoTask}

====
